---- MODULE Spec2Model ----
(***************************************************************************)
(* Model of RPA.Browser (src/src/RPA/Browser.py): the browser acquisition  *)
(* fallback of open_available_browser, the driver reconciliation of        *)
(* webdriver_init and the Chrome version detection.                        *)
(*                                                                         *)
(* Python values are modelled as follows.  Strings that the code parses    *)
(* (command outputs, version numbers) are sequences of one-character       *)
(* strings; other strings are TLA+ strings.  A path is the sequence of its *)
(* components.  None / False results have their own definitions.           *)
(***************************************************************************)
EXTENDS Integers, Sequences, FiniteSets, TLC

VARIABLES
    platform,          \* platform.system()
    probeOut,          \* output of each Chrome version probe command, in list order
    logDebug,          \* self.logger.isEnabledFor(logging.DEBUG)
    profileDir,        \* RPA_CHROME_USER_PROFILE_DIR is set
    tempDrv,           \* driver file of each provider in TEMPDIR/drivers (NoFile or its version)
    canonDrv,          \* driver file of each provider in the provider's link_path
    pc,                \* position of the open_available_browser call
    request,           \* arguments of the call
    order,             \* preferable_browser_order
    pos,               \* position of the for loop in preferable_browser_order
    method,            \* next method (strategy) of the current loop iteration
    options,           \* local variable options
    index,             \* local variable index
    selected_browser,  \* local variable selected_browser
    attempts,          \* history: the create_rpa_webdriver calls of this call, in order
    sessions,          \* number of webdrivers registered by create_webdriver
    url_opened,        \* history: number of go_to(url) calls of this call
    error,             \* exception that left open_available_browser, or NoError
    detection,         \* result of a detect_chrome_version call made on its own
    worksheets,        \* RPA.Excel.Files: worksheet names of the open workbook, in order
    active,            \* RPA.Excel.Files: name of the active worksheet
    raised,            \* RPA.Excel.Files: exception of the last worksheet keyword
    call,              \* history: the last worksheet keyword and its argument
    calls              \* history: number of open_available_browser calls that are over

vars == <<platform, probeOut, logDebug, profileDir, tempDrv, canonDrv, pc, request,
          order, pos, method, options, index, selected_browser, attempts, sessions,
          url_opened, error, detection, worksheets, active, raised, call, calls>>

\* what an open_available_browser call leaves alone: the machine, and the
\* state of the other keywords
envVars == <<platform, probeOut, logDebug, profileDir, canonDrv, detection,
             worksheets, active, raised, call, calls>>

-----------------------------------------------------------------------------
(* Bounds of the model *)

\* longest explicit browser_selection list that is enumerated
MaxListLen == 2

-----------------------------------------------------------------------------
(* Python values *)

\* a string as a sequence of characters
Digits == {"0", "1", "2", "3", "4", "5", "6", "7", "8", "9"}

V81 == <<"8", "1", ".", "0", ".", "4", "0", "4", "4", ".", "6", "9">>
V80 == <<"8", "0", ".", "0", ".", "3", "9", "8", "7", ".", "1", "0", "6">>
V79 == <<"7", "9", ".", "0", ".", "3", "9", "4", "5", ".", "3", "6">>
\* a Chrome 81 build other than the one of the table, and an unmapped major version
V81b == <<"8", "1", ".", "0", ".", "4", "0", "4", "4", ".", "9", "2">>
V83 == <<"8", "3", ".", "0", ".", "4", "1", "0", "3", ".", "3", "9">>
\* str(b'') of an empty stdout
EmptyText == <<>>

\* the value False / None of a version
False == <<>>
\* a missing file
NoFile == <<>>
\* executable = None of webdriver_init
NoPath == <<>>
NoError == "none"
\* selected_browser = None
None == <<>>

\* detect_chrome_version was not called on its own
NotDetected == [raises |-> NoError, version |-> <<"?">>]
\* no workbook is open: no active worksheet, no worksheet keyword was called
NoSheet == ""
NoCall == [keyword |-> "", name |-> ""]

AUTOMATIC_BROWSER_SELECTION == "AUTO"

Kinds == {"Chrome", "Firefox", "Safari", "Edge", "IE", "Opera"}

\* str.lower() on the browser names
lower(browser) ==
    CASE browser = "Chrome" -> "chrome"
      [] browser = "Firefox" -> "firefox"
      [] browser = "Safari" -> "safari"
      [] browser = "Edge" -> "edge"
      [] browser = "IE" -> "ie"
      [] browser = "Opera" -> "opera"
      [] OTHER -> browser

\* webdrivermanager.AVAILABLE_DRIVERS: the kinds that have a driver manager class
AVAILABLE_DRIVERS == {"chrome", "firefox", "edge", "ie", "opera"}

AVAILABLE_OPTIONS == [b \in {"chrome"} |-> "ChromeOptions"]

CHROMEDRIVER_VERSIONS ==
    [major \in {<<"8", "1">>, <<"8", "0">>, <<"7", "9">>} |->
        CASE major = <<"8", "1">> -> V81
          [] major = <<"8", "0">> -> V80
          [] major = <<"7", "9">> -> V79]

Platforms == {"Windows", "Linux", "Darwin", "Other"}

-----------------------------------------------------------------------------
(* Candidate ordering *)

\* get_preferable_browser_order that puts Chrome after the platform's browsers
get_preferable_browser_order_ChromeLast(system) ==
    (CASE system = "Windows" -> <<"Firefox", "Edge", "IE", "Opera">>
       [] system = "Linux" -> <<"Firefox", "Opera">>
       [] system = "Darwin" -> <<"Safari", "Firefox", "Opera">>
       [] OTHER -> <<"Firefox">>) \o <<"Chrome">>

get_preferable_browser_order(system) ==
    <<"Chrome">> \o
        (CASE system = "Windows" -> <<"Firefox", "Edge", "IE", "Opera">>
           [] system = "Linux" -> <<"Firefox", "Opera">>
           [] system = "Darwin" -> <<"Safari", "Firefox", "Opera">>
           [] OTHER -> <<"Firefox">>)

\* a browser_selection is a string ("AUTO" or one browser name) or a list of
\* browser names: [isList, str, list]
StrSelection(name) == [isList |-> FALSE, str |-> name, list |-> <<>>]
ListSelection(names) == [isList |-> TRUE, str |-> "", list |-> names]

\* get_browser_order that tries Chrome before the browsers of an explicit selection
get_browser_order_ChromeFirst(system, browser_selection) ==
    IF ~browser_selection.isList /\ browser_selection.str = AUTOMATIC_BROWSER_SELECTION
    THEN get_preferable_browser_order(system)
    ELSE IF browser_selection.isList
         THEN <<"Chrome">> \o browser_selection.list
         ELSE <<"Chrome", browser_selection.str>>

get_browser_order(system, browser_selection) ==
    IF ~browser_selection.isList /\ browser_selection.str = AUTOMATIC_BROWSER_SELECTION
    THEN get_preferable_browser_order(system)
    ELSE IF browser_selection.isList
         THEN browser_selection.list
         ELSE <<browser_selection.str>>

-----------------------------------------------------------------------------
(* Version detection *)

\* length of the longest run of digits of s that starts at position i
DigitRun(s, i) ==
    LET stops == {t \in i..Len(s) : s[t] \notin Digits}
    IN  IF stops = {} THEN Len(s) + 1 - i
        ELSE (CHOOSE t \in stops : \A t2 \in stops : t <= t2) - i

NoMatch == <<>>

\* CHROME_VERSION_PATTERN (\d+)(\.\d+\.\d+.\d+) matched from position i, one
\* part of the pattern per operator; the result is <<group(1), group(0)>> or
\* NoMatch.

\* ".\d+" after the third number, which is the run of digits p..m-1.  The dot
\* is not escaped and matches any character: the number takes its whole run
\* when a character and a digit follow, and otherwise gives up its last two
\* digits to ".\d+".
MatchLast(s, i, j, p, m) ==
    IF m > p /\ m + 1 <= Len(s) /\ s[m + 1] \in Digits
    THEN <<SubSeq(s, i, j - 1), SubSeq(s, i, m + DigitRun(s, m + 1))>>
    ELSE IF m - p >= 3
         THEN <<SubSeq(s, i, j - 1), SubSeq(s, i, m - 1)>>
         ELSE NoMatch

\* "\.\d+" after the second number, which ends before position k
MatchThird(s, i, j, k) ==
    IF k > j + 1 /\ k <= Len(s) /\ s[k] = "."
    THEN MatchLast(s, i, j, k + 1, k + 1 + DigitRun(s, k + 1))
    ELSE NoMatch

\* "\.\d+" after the first number, which is the run of digits i..j-1
MatchSecond(s, i, j) ==
    IF j > i /\ j <= Len(s) /\ s[j] = "."
    THEN MatchThird(s, i, j, j + 1 + DigitRun(s, j + 1))
    ELSE NoMatch

MatchAt(s, i) == MatchSecond(s, i, i + DigitRun(s, i))

\* the positions of s where a match starts
MatchStarts(s) == {i \in 1..Len(s) : MatchAt(s, i) # NoMatch}

LeftMost(s, starts) ==
    IF starts = {} THEN NoMatch
    ELSE MatchAt(s, CHOOSE i \in starts : \A i2 \in starts : i <= i2)

\* re.search(CHROME_VERSION_PATTERN, s): the leftmost match
re_search(s) == LeftMost(s, MatchStarts(s))

\* the chromedriver version of a match: the table entry of its major version
VersionOfMatch(version) ==
    IF version = NoMatch THEN False
    ELSE IF version[1] \in DOMAIN CHROMEDRIVER_VERSIONS
         THEN CHROMEDRIVER_VERSIONS[version[1]]
         ELSE False

\* the version lookup shared by detect_chrome_version and
\* get_installed_chromedriver_version, applied to one command output
\* (a record [found, text]; found = FALSE is the False of FileNotFoundError;
\* a found output is str(bytes), never the empty string, hence true)
VersionOfOutput(output) ==
    IF output.found THEN VersionOfMatch(re_search(output.text)) ELSE False

HasVersion(output) == output.found /\ MatchStarts(output.text) # {}

\* the probe commands of a platform, in list order (the Darwin list names the
\* Google Chrome binary twice)
OS_CMDS ==
    [system \in {"Windows", "Linux", "Darwin"} |->
        CASE system = "Windows" -> <<"reg Google Chrome", "reg Chromium">>
          [] system = "Linux" -> <<"chromium", "chromium-browser", "google-chrome">>
          [] system = "Darwin" -> <<"Google Chrome", "Google Chrome", "Chromium">>]

Commands(system) ==
    IF system \in DOMAIN OS_CMDS
    THEN {OS_CMDS[system][i] : i \in 1..Len(OS_CMDS[system])} ELSE {}

\* the first command of CMDS whose output holds a version, 0 when there is none
FirstHit(CMDS, outputs) ==
    IF \E i \in 1..Len(CMDS) : HasVersion(outputs[CMDS[i]])
    THEN CHOOSE i \in 1..Len(CMDS) :
            /\ HasVersion(outputs[CMDS[i]])
            /\ \A i2 \in 1..(i - 1) : ~HasVersion(outputs[CMDS[i2]])
    ELSE 0

DetectedIn(CMDS, outputs, first) ==
    IF first = 0 THEN [raises |-> NoError, version |-> False]
    ELSE [raises |-> NoError, version |-> VersionOfOutput(outputs[CMDS[first]])]

\* detect_chrome_version: [raises, version]; OS_CMDS[platform.system()] raises
\* KeyError on a platform outside the table
detect_chrome_version(system, outputs) ==
    IF system \notin DOMAIN OS_CMDS
    THEN [raises |-> "KeyError", version |-> False]
    ELSE DetectedIn(OS_CMDS[system], outputs, FirstHit(OS_CMDS[system], outputs))

-----------------------------------------------------------------------------
(* Driver files and driver reconciliation *)

\* dm.get_driver_filename() of the driver manager class of a kind
get_driver_filename(dm) ==
    CASE dm = "chrome" -> "chromedriver"
      [] dm = "firefox" -> "geckodriver"
      [] dm = "edge" -> "msedgedriver"
      [] dm = "ie" -> "IEDriverServer"
      [] dm = "opera" -> "operadriver"

\* the version a download without a pinned version installs
LatestVersion == V83

default_executable_path(dm) == <<"link_path", get_driver_filename(dm)>>
driver_tempdir == <<"TEMPDIR", "drivers">>
temp_executable_path(dm) == Append(driver_tempdir, get_driver_filename(dm))

\* the file at a path: NoFile, or the version of the driver stored there
FileAt(path, temp, canon) ==
    IF \E dm \in AVAILABLE_DRIVERS : path = temp_executable_path(dm)
    THEN temp[CHOOSE dm \in AVAILABLE_DRIVERS : path = temp_executable_path(dm)]
    ELSE IF \E dm \in AVAILABLE_DRIVERS : path = default_executable_path(dm)
         THEN canon[CHOOSE dm \in AVAILABLE_DRIVERS : path = default_executable_path(dm)]
         ELSE NoFile

exists(path, temp, canon) == FileAt(path, temp, canon) # NoFile

\* _set_driver_paths that prefers a driver found at the canonical location
_set_driver_paths_CanonFirst(dm, download, temp, canon) ==
    IF exists(default_executable_path(dm), temp, canon) /\ ~download
    THEN default_executable_path(dm)
    ELSE IF exists(temp_executable_path(dm), temp, canon) \/ download
         THEN temp_executable_path(dm)
         ELSE default_executable_path(dm)

\* _set_driver_paths that takes the temp path only when a download is asked for
_set_driver_paths_DownloadOnly(dm, download, temp, canon) ==
    IF download
    THEN temp_executable_path(dm)
    ELSE default_executable_path(dm)

\* _set_driver_paths: driver_executable_path (driver_tempdir is a fixed value)
_set_driver_paths(dm, download, temp, canon) ==
    IF exists(temp_executable_path(dm), temp, canon) \/ download
    THEN temp_executable_path(dm)
    ELSE default_executable_path(dm)

\* the program that the shell runs for str(path): the text up to the first
\* blank.  A last component that starts with a blank leaves the path before
\* it with a trailing "/" (an empty last component).
ShellProgram(path) ==
    IF Len(path) > 0 /\ path[Len(path)] = " --version"
    THEN Append(SubSeq(path, 1, Len(path) - 1), "")
    ELSE path

\* _run_command_return_output of a driver command line: the stdout of the
\* driver (its version) when the program is a driver file, the empty stdout
\* of a shell that cannot run the program otherwise
_run_command_return_output(command, temp, canon) ==
    [found |-> TRUE, text |-> FileAt(ShellProgram(command), temp, canon)]

get_installed_chromedriver_version(driver_executable_path, temp, canon) ==
    VersionOfOutput(_run_command_return_output(driver_executable_path, temp, canon))

VersionsDiffer(chromedriver_version, browser_version) ==
    IF chromedriver_version = False THEN TRUE
    ELSE IF chromedriver_version # browser_version THEN TRUE
    ELSE FALSE

\* _check_chrome_and_driver_versions: the command is driver_ex_path / " --version",
\* a path below the driver file
_check_chrome_and_driver_versions(driver_ex_path, browser_version, temp, canon) ==
    VersionsDiffer(
        get_installed_chromedriver_version(Append(driver_ex_path, " --version"),
                                           temp, canon),
        browser_version)

DownloadOutcomes == {"ok", "RuntimeError"}

\* download_driver without the except clause
download_driver_Uncaught(dm, version, outcome, temp) ==
    IF outcome = "ok"
    THEN [raises |-> NoError,
          temp |-> [temp EXCEPT ![dm] = IF version # False THEN version
                                        ELSE LatestVersion]]
    ELSE [raises |-> "RuntimeError", temp |-> temp]

\* download_driver into driver_tempdir: [raises, temp]; a RuntimeError of
\* download_and_install is passed over
download_driver(dm, version, outcome, temp) ==
    IF outcome = "ok"
    THEN [raises |-> NoError,
          temp |-> [temp EXCEPT ![dm] = IF version # False THEN version
                                        ELSE LatestVersion]]
    ELSE [raises |-> NoError, temp |-> temp]

\* what webdriver_init does: the exception it raises, the path it returns, the
\* driver files it leaves, and (history) the download it asked for
NoDownload(executable, temp, reconciled, checked, browser_version) ==
    [raises |-> NoError, executable |-> executable, temp |-> temp,
     downloaded |-> FALSE, version |-> False, dlOutcome |-> "none",
     reconciled |-> reconciled, checked |-> checked,
     browser_version |-> browser_version]

Downloaded(dl, driver_ex_path, checked, browser_version, outcome) ==
    [raises |-> dl.raises,
     executable |-> IF dl.raises = NoError THEN driver_ex_path ELSE NoPath,
     temp |-> dl.temp, downloaded |-> TRUE, version |-> browser_version,
     dlOutcome |-> outcome, reconciled |-> TRUE, checked |-> checked,
     browser_version |-> browser_version]

\* Reconcile that fetches a missing driver also when no download was asked for
Reconcile_FetchMissing(dm, download, browser_version, driver_ex_path, here, temp, canon, outcome) ==
    IF ~here
    THEN Downloaded(download_driver(dm, browser_version, outcome, temp),
                    driver_ex_path, FALSE, browser_version, outcome)
    ELSE IF download /\ dm = "chrome"
         THEN IF _check_chrome_and_driver_versions(driver_ex_path,
                                                   browser_version, temp, canon)
              THEN Downloaded(download_driver(dm, browser_version, outcome, temp),
                              driver_ex_path, TRUE, browser_version, outcome)
              ELSE NoDownload(driver_ex_path, temp, TRUE, TRUE, browser_version)
         ELSE NoDownload(driver_ex_path, temp, download, FALSE, browser_version)

\* Reconcile that compares the versions for every kind, not for Chrome only
Reconcile_EveryKind(dm, download, browser_version, driver_ex_path, here, temp, canon, outcome) ==
    IF download
    THEN IF ~here
         THEN Downloaded(download_driver(dm, browser_version, outcome, temp),
                         driver_ex_path, FALSE, browser_version, outcome)
         ELSE IF _check_chrome_and_driver_versions(driver_ex_path,
                                                   browser_version, temp, canon)
              THEN Downloaded(download_driver(dm, browser_version, outcome, temp),
                              driver_ex_path, TRUE, browser_version, outcome)
              ELSE NoDownload(driver_ex_path, temp, TRUE, TRUE, browser_version)
    ELSE NoDownload(driver_ex_path, temp, FALSE, FALSE, browser_version)

\* lines 366-384, here being driver_ex_path.exists()
Reconcile(dm, download, browser_version, driver_ex_path, here, temp, canon, outcome) ==
    IF download
    THEN IF ~here
         THEN Downloaded(download_driver(dm, browser_version, outcome, temp),
                         driver_ex_path, FALSE, browser_version, outcome)
         ELSE IF dm = "chrome"
              THEN IF _check_chrome_and_driver_versions(driver_ex_path,
                                                        browser_version, temp, canon)
                   THEN Downloaded(download_driver(dm, browser_version, outcome, temp),
                                   driver_ex_path, TRUE, browser_version, outcome)
                   ELSE NoDownload(driver_ex_path, temp, TRUE, TRUE, browser_version)
              ELSE NoDownload(driver_ex_path, temp, TRUE, FALSE, browser_version)
    ELSE NoDownload(driver_ex_path, temp, FALSE, FALSE, browser_version)

\* lines 363-388 for the driver manager class of dm
InitDriver(dm, download, browser_version, driver_ex_path, temp, canon, outcome) ==
    Reconcile(dm, download, browser_version, driver_ex_path,
              exists(driver_ex_path, temp, canon), temp, canon, outcome)

\* lines 358-388, detected being the result of detect_chrome_version
InitDetected(browser, download, detected, temp, canon, outcome) ==
    IF detected.raises # NoError
    THEN [NoDownload(NoPath, temp, FALSE, FALSE, False) EXCEPT
             !.raises = detected.raises]
    ELSE IF lower(browser) \in AVAILABLE_DRIVERS
         THEN InitDriver(lower(browser), download, detected.version,
                         _set_driver_paths(lower(browser), download, temp, canon),
                         temp, canon, outcome)
         ELSE NoDownload(NoPath, temp, FALSE, FALSE, detected.version)

webdriver_init(browser, download, system, outputs, temp, canon, outcome) ==
    InitDetected(browser, download, detect_chrome_version(system, outputs),
                 temp, canon, outcome)

-----------------------------------------------------------------------------
(* Driver options *)

\* the arguments of a sequence, as a set
Range(seq) == {seq[i] : i \in 1..Len(seq)}

\* browser_options = None
NoOptions == [isNone |-> TRUE, arguments |-> <<>>, experimental_options |-> {}]

set_default_options(browser_options) ==
    [browser_options EXCEPT !.arguments =
        @ \o <<"--disable-web-security", "--allow-running-insecure-content",
               "--remote-debugging-port=12922", "--no-sandbox">>]

set_headless_options(browser, browser_options) ==
    IF lower(browser) = "safari" THEN browser_options
    ELSE IF ~browser_options.isNone
         THEN [browser_options EXCEPT !.arguments =
                  @ \o <<"--headless", "--disable-gpu", "--disable-dev-shm-usage">>]
         ELSE browser_options

set_user_profile(browser_options, user_profile_dir) ==
    IF ~user_profile_dir THEN browser_options
    ELSE [browser_options EXCEPT !.arguments =
             @ \o <<"--user-data-dir", "--enable-local-sync-backend",
                    "--local-sync-backend-dir">>]

\* set_driver_options: the dictionary driver_options as [keys, browser_options],
\* browser_options being the value of its key "chrome_options" or "options"
set_driver_options(browser, use_profile, headless, maximized, debug, user_profile_dir) ==
    IF lower(browser) \notin DOMAIN AVAILABLE_OPTIONS
    THEN [keys |-> {}, browser_options |-> NoOptions]
    ELSE LET o0 == [isNone |-> FALSE, arguments |-> <<>>, experimental_options |-> {}]
             o1 == IF lower(browser) = "chrome"
                   THEN [set_default_options(o0) EXCEPT !.experimental_options =
                            {"excludeSwitches", "prefs"}]
                   ELSE o0
             k1 == IF lower(browser) = "chrome" /\ debug
                   THEN {"service_log_path", "service_args"} ELSE {}
             o2 == IF headless THEN set_headless_options(browser, o1) ELSE o1
             o3 == IF maximized
                   THEN [o2 EXCEPT !.arguments = Append(@, "--start-maximized")]
                   ELSE o2
             o4 == IF use_profile THEN set_user_profile(o3, user_profile_dir) ELSE o3
         IN  IF ~o4.isNone /\ lower(browser) # "chrome"
             THEN [keys |-> k1 \cup {"options"}, browser_options |-> o4]
             ELSE [keys |-> k1 \cup {"chrome_options"}, browser_options |-> o4]

\* the options start the browser in headless mode
IsHeadless(driver_options) ==
    "--headless" \in Range(driver_options.browser_options.arguments)

-----------------------------------------------------------------------------
(* One launch attempt *)

LaunchOutcomes == {"ok", "WebDriverException"}

\* the value False of index; an index n is <<n>>
IndexFalse == <<>>

\* the file of the driver manager class of a browser in a driver directory
DriverOf(browser, dir) ==
    IF lower(browser) \in AVAILABLE_DRIVERS THEN dir[lower(browser)] ELSE NoFile

\* (history) what an attempt did: its arguments, the outcome init of
\* webdriver_init, the arguments and the outcome of create_webdriver
Entry(browser, opts, download, init, temp, canon, launch) ==
    [browser |-> browser, download |-> download, options |-> opts,
     launched |-> init.raises = NoError,
     executable_path |-> init.executable,
     outcome |-> IF init.raises = NoError THEN launch ELSE "none",
     downloaded |-> init.downloaded, version |-> init.version,
     dlOutcome |-> init.dlOutcome, reconciled |-> init.reconciled,
     checked |-> init.checked, browser_version |-> init.browser_version,
     tempBefore |-> DriverOf(browser, temp),
     canonBefore |-> DriverOf(browser, canon)]

\* lines 181-192: create_webdriver with the options and, when webdriver_init
\* returned a path, with executable_path; a WebDriverException gives False
Launch(init, entry, registered, launch) ==
    IF init.raises # NoError
    THEN [raises |-> init.raises, index |-> IndexFalse, temp |-> init.temp,
          entry |-> entry]
    ELSE IF launch = "ok"
         THEN [raises |-> NoError, index |-> <<registered + 1>>,
               temp |-> init.temp, entry |-> entry]
         ELSE [raises |-> NoError, index |-> IndexFalse, temp |-> init.temp,
               entry |-> entry]

Attempt(browser, opts, download, init, temp, canon, registered, launch) ==
    Launch(init, Entry(browser, opts, download, init, temp, canon, launch),
           registered, launch)

\* create_rpa_webdriver: the exception that leaves it, the index it returns,
\* the driver files it leaves, and (history) what the attempt did.
\* dlOutcome is the behaviour of the DriverProvider, launch the behaviour of
\* create_webdriver.
create_rpa_webdriver(browser, opts, download, system, outputs, temp, canon, registered, dlOutcome, launch) ==
    Attempt(browser, opts, download,
            webdriver_init(browser, download, system, outputs, temp, canon, dlOutcome),
            temp, canon, registered, launch)

-----------------------------------------------------------------------------
(* The inputs that are enumerated *)

\* outputs of a Chrome version probe command: nothing on stdout, or the
\* version of an installed Chrome 81
ProbeOutputs == {[found |-> TRUE, text |-> EmptyText],
                 [found |-> TRUE, text |-> V81b]}

\* the probe commands of a platform all answer alike: no Chrome is installed,
\* or each command finds the Chrome that is installed
ProbeEnvs(system) == {[c \in Commands(system) |-> o] : o \in ProbeOutputs}

\* the kinds that explicit lists are built from
ListKinds == {"Firefox", "Safari"}

Lists == UNION {[1..n -> ListKinds] : n \in 0..MaxListLen}

Selections ==
    {StrSelection(AUTOMATIC_BROWSER_SELECTION)}
        \cup {StrSelection(k) : k \in Kinds}
        \cup {ListSelection(l) : l \in Lists}

Requests ==
    [browser_selection : Selections, use_profile : BOOLEAN, headless : BOOLEAN,
     maximized : BOOLEAN]

NoRequest ==
    [browser_selection |-> StrSelection(AUTOMATIC_BROWSER_SELECTION),
     use_profile |-> FALSE, headless |-> FALSE, maximized |-> FALSE]

NoDrivers == [dm \in AVAILABLE_DRIVERS |-> NoFile]

\* driver directories that hold drivers of Chrome 80
OldDrivers == [dm \in AVAILABLE_DRIVERS |-> V80]

\* the machines the library runs on: the driver files in the temp directory
\* and in the link_path of the providers, the log level, the profile
\* directory variable
Machines ==
    {[temp |-> NoDrivers, canon |-> NoDrivers, debug |-> FALSE, profile |-> FALSE],
     [temp |-> NoDrivers, canon |-> OldDrivers, debug |-> FALSE, profile |-> TRUE],
     [temp |-> OldDrivers, canon |-> NoDrivers, debug |-> TRUE, profile |-> FALSE]}

-----------------------------------------------------------------------------
(* The acquisition call *)

Init ==
    /\ platform \in Platforms
    /\ probeOut \in ProbeEnvs(platform)
    /\ \E m \in Machines :
          /\ tempDrv = m.temp
          /\ canonDrv = m.canon
          /\ logDebug = m.debug
          /\ profileDir = m.profile
    /\ pc = "idle"
    /\ request = NoRequest
    /\ order = <<>>
    /\ pos = 0
    /\ method = 0
    /\ options = [keys |-> {}, browser_options |-> NoOptions]
    /\ index = <<-1>>
    /\ selected_browser = None
    /\ attempts = <<>>
    /\ sessions = 0
    /\ url_opened = 0
    /\ error = NoError
    /\ detection = NotDetected
    /\ worksheets = <<>>
    /\ active = NoSheet
    /\ raised = NoError
    /\ call = NoCall
    /\ calls = 0

\* open_available_browser up to the loop (lines 109-116)
Begin(req) ==
    /\ pc = "idle"
    /\ request' = req
    /\ index' = <<-1>>
    /\ order' = get_browser_order(platform, req.browser_selection)
    /\ selected_browser' = None
    /\ pos' = 1
    /\ method' = 1
    /\ pc' = "loop"
    /\ UNCHANGED <<envVars, tempDrv, options, attempts, sessions, url_opened, error>>

\* AfterAttempt whose success leaves index as the attempt before left it
AfterAttempt_StaleIndex(n, r, nextPos, nextMethod) ==
    /\ attempts' = Append(attempts, r.entry @@ [pos |-> pos, method |-> n])
    /\ tempDrv' = r.temp
    /\ IF r.raises # NoError
       THEN /\ pc' = "raised"
            /\ error' = r.raises
            /\ UNCHANGED <<index, selected_browser, pos, method, sessions>>
       ELSE IF r.index # IndexFalse
       THEN /\ selected_browser' = <<order[pos], n>>
            /\ sessions' = sessions + 1
            /\ pc' = "break"
            /\ UNCHANGED <<index, pos, method, error>>
       ELSE /\ index' = r.index
            /\ pos' = nextPos
            /\ method' = nextMethod
            /\ UNCHANGED <<selected_browser, sessions, pc, error>>

\* AfterAttempt without the break: a success records the selection and the
\* loop goes on
AfterAttempt_NoBreak(n, r, nextPos, nextMethod) ==
    /\ attempts' = Append(attempts, r.entry @@ [pos |-> pos, method |-> n])
    /\ tempDrv' = r.temp
    /\ IF r.raises # NoError
       THEN /\ pc' = "raised"
            /\ error' = r.raises
            /\ UNCHANGED <<index, selected_browser, pos, method, sessions>>
       ELSE IF r.index # IndexFalse
       THEN /\ index' = r.index
            /\ selected_browser' = <<order[pos], n>>
            /\ sessions' = sessions + 1
            /\ pos' = nextPos
            /\ method' = nextMethod
            /\ UNCHANGED <<pc, error>>
       ELSE /\ index' = r.index
            /\ pos' = nextPos
            /\ method' = nextMethod
            /\ UNCHANGED <<selected_browser, sessions, pc, error>>

\* what an attempt of method n with the options opts leaves, given the result r
\* of create_rpa_webdriver: success breaks the loop, failure goes on with
\* nextPos / nextMethod, an exception leaves open_available_browser
AfterAttempt(n, r, nextPos, nextMethod) ==
    /\ attempts' = Append(attempts, r.entry @@ [pos |-> pos, method |-> n])
    /\ tempDrv' = r.temp
    /\ IF r.raises # NoError
       THEN /\ pc' = "raised"
            /\ error' = r.raises
            /\ UNCHANGED <<index, selected_browser, pos, method, sessions>>
       ELSE IF r.index # IndexFalse
       THEN /\ index' = r.index
            /\ selected_browser' = <<order[pos], n>>
            /\ sessions' = sessions + 1
            /\ pc' = "break"
            /\ UNCHANGED <<pos, method, error>>
       ELSE /\ index' = r.index
            /\ pos' = nextPos
            /\ method' = nextMethod
            /\ UNCHANGED <<selected_browser, sessions, pc, error>>

\* Method1 that builds the options with headless forced on
Method1_Headless(dlOutcome, launch) ==
    /\ pc = "loop" /\ pos <= Len(order) /\ method = 1
    /\ LET browser == order[pos]
           opts == set_driver_options(browser, request.use_profile, TRUE,
                                      request.maximized, logDebug, profileDir)
           r == create_rpa_webdriver(browser, opts, FALSE, platform, probeOut,
                                     tempDrv, canonDrv, sessions, dlOutcome, launch)
       IN  /\ options' = opts
           /\ AfterAttempt(1, r, pos, 2)
    /\ UNCHANGED <<envVars, request, order, url_opened>>

\* first try (lines 118-129)
Method1(dlOutcome, launch) ==
    /\ pc = "loop" /\ pos <= Len(order) /\ method = 1
    /\ LET browser == order[pos]
           opts == set_driver_options(browser, request.use_profile, request.headless,
                                      request.maximized, logDebug, profileDir)
           r == create_rpa_webdriver(browser, opts, FALSE, platform, probeOut,
                                     tempDrv, canonDrv, sessions, dlOutcome, launch)
       IN  /\ options' = opts
           /\ AfterAttempt(1, r, pos, 2)
    /\ UNCHANGED <<envVars, request, order, url_opened>>

\* Method2 that goes on to the third try also when headless was requested
Method2_NoSkip(dlOutcome, launch) ==
    /\ pc = "loop" /\ pos <= Len(order) /\ method = 2
    /\ LET browser == order[pos]
           r == create_rpa_webdriver(browser, options, TRUE, platform, probeOut,
                                     tempDrv, canonDrv, sessions, dlOutcome, launch)
       IN  AfterAttempt(2, r, pos, 3)
    /\ UNCHANGED <<envVars, request, order, options, url_opened>>

\* Method2 that does not ask for the download
Method2_NoDownload(dlOutcome, launch) ==
    /\ pc = "loop" /\ pos <= Len(order) /\ method = 2
    /\ LET browser == order[pos]
           r == create_rpa_webdriver(browser, options, FALSE, platform, probeOut,
                                     tempDrv, canonDrv, sessions, dlOutcome, launch)
       IN  IF request.headless = FALSE
           THEN AfterAttempt(2, r, pos, 3)
           ELSE AfterAttempt(2, r, pos + 1, 1)
    /\ UNCHANGED <<envVars, request, order, options, url_opened>>

\* second try (lines 131-141); when headless was requested the third try is
\* skipped and the loop goes on with the next browser
Method2(dlOutcome, launch) ==
    /\ pc = "loop" /\ pos <= Len(order) /\ method = 2
    /\ LET browser == order[pos]
           r == create_rpa_webdriver(browser, options, TRUE, platform, probeOut,
                                     tempDrv, canonDrv, sessions, dlOutcome, launch)
       IN  IF request.headless = FALSE
           THEN AfterAttempt(2, r, pos, 3)
           ELSE AfterAttempt(2, r, pos + 1, 1)
    /\ UNCHANGED <<envVars, request, order, options, url_opened>>

\* third try (lines 141-152)
Method3(dlOutcome, launch) ==
    /\ pc = "loop" /\ pos <= Len(order) /\ method = 3
    /\ LET browser == order[pos]
           opts == set_driver_options(browser, request.use_profile, TRUE,
                                      request.maximized, logDebug, profileDir)
           r == create_rpa_webdriver(browser, opts, TRUE, platform, probeOut,
                                     tempDrv, canonDrv, sessions, dlOutcome, launch)
       IN  /\ options' = opts
           /\ AfterAttempt(3, r, pos + 1, 1)
    /\ UNCHANGED <<envVars, request, order, url_opened>>

\* after the loop, a browser was selected: go_to(url), return index (lines 154-160)
Return ==
    /\ \/ pc = "break"
       \/ pc = "loop" /\ pos > Len(order)
    /\ selected_browser # None
    /\ url_opened' = url_opened + 1
    /\ pc' = "returned"
    /\ UNCHANGED <<envVars, tempDrv, request, order, pos, method, options, index,
                   selected_browser, attempts, sessions, error>>

\* after the loop, no browser was selected: raise BrowserNotFoundError
\* (lines 161-166)
Raise ==
    /\ \/ pc = "break"
       \/ pc = "loop" /\ pos > Len(order)
    /\ selected_browser = None
    /\ pc' = "raised"
    /\ error' = "BrowserNotFoundError"
    /\ UNCHANGED <<envVars, tempDrv, request, order, pos, method, options, index,
                   selected_browser, attempts, sessions, url_opened>>

Next ==
    \/ \E req \in Requests : Begin(req)
    \/ \E d \in DownloadOutcomes, l \in LaunchOutcomes : Method1(d, l)
    \/ \E d \in DownloadOutcomes, l \in LaunchOutcomes : Method2(d, l)
    \/ \E d \in DownloadOutcomes, l \in LaunchOutcomes : Method3(d, l)
    \/ Return
    \/ Raise

Spec == Init /\ [][Next]_vars

TypeOK ==
    /\ platform \in Platforms
    /\ pc \in {"idle", "loop", "break", "returned", "raised"}
    /\ error \in {NoError, "BrowserNotFoundError", "KeyError"}

-----------------------------------------------------------------------------
(* Properties of the acquisition call *)

\* number of methods tried per browser
MethodsPerBrowser == IF request.headless THEN 2 ELSE 3

\* the i-th (position, method) pair of the fixed order
ScheduledPair(i) ==
    <<((i - 1) \div MethodsPerBrowser) + 1, ((i - 1) % MethodsPerBrowser) + 1>>

Failed(a) == a.launched /\ a.outcome = "WebDriverException"

Succeeded(a) == a.launched /\ a.outcome = "ok"

\* C1: the attempts follow the fixed order browser by browser and method 1, 2,
\* 3; every attempt before the last one failed with a caught launch failure; an
\* attempt that succeeded is the last one and the selection is its (browser,
\* method) pair; a selection is only ever that of a last, successful attempt.
C1_StopsAtFirstSuccess ==
    LET n == Len(attempts)
    IN  /\ \A i \in 1..n :
              /\ <<attempts[i].pos, attempts[i].method>> = ScheduledPair(i)
              /\ attempts[i].browser = order[attempts[i].pos]
        /\ \A i \in 1..(n - 1) : Failed(attempts[i])
        /\ (n > 0 /\ Succeeded(attempts[n])) =>
              /\ selected_browser = <<attempts[n].browser, attempts[n].method>>
              /\ pc \in {"break", "returned"}
        /\ selected_browser # None => n > 0 /\ Succeeded(attempts[n])

\* Chrome failed entirely, Firefox failed method 1 and succeeded with method 2
C1_Witness ==
    /\ pc = "returned"
    /\ Len(order) >= 3
    /\ order[1] = "Chrome" /\ order[2] = "Firefox"
    /\ selected_browser = <<"Firefox", 2>>
    /\ Len(attempts) = 5

\* C2: BrowserNotFoundError is raised only after every browser of the list was
\* tried with methods 1, 2 and 3 (1 and 2 when headless was requested), each
\* pair once and each without success, and without opening the url.
C2_ExhaustsBeforeRaise ==
    error = "BrowserNotFoundError" =>
        /\ Len(attempts) = MethodsPerBrowser * Len(order)
        /\ \A p \in 1..Len(order), m \in 1..MethodsPerBrowser :
              Cardinality({i \in 1..Len(attempts) :
                              attempts[i].pos = p /\ attempts[i].method = m}) = 1
        /\ \A i \in 1..Len(attempts) : Failed(attempts[i])
        /\ url_opened = 0

\* headless was requested and three browsers were tried with two methods each
C2_Witness ==
    /\ error = "BrowserNotFoundError"
    /\ request.headless
    /\ Len(order) = 3
    /\ Len(attempts) = 6

\* C3: a call in which no launch succeeds ends with BrowserNotFoundError and
\* with no other error, on every platform.
C3_OnlyBrowserNotFound ==
    (pc = "raised" /\ \A i \in 1..Len(attempts) : ~Succeeded(attempts[i]))
        => error = "BrowserNotFoundError"

-----------------------------------------------------------------------------
(* Properties of the single attempts *)

HasProvider(a) == lower(a.browser) \in AVAILABLE_DRIVERS

\* the options that set_driver_options builds from the flags of the caller
CallerOptions(browser) ==
    set_driver_options(browser, request.use_profile, request.headless,
                       request.maximized, logDebug, profileDir)

\* C4 (as claimed): every method 1 launch is made with options built from the
\* flags of the caller only, without forced headless, and without a driver
\* path passed to create_webdriver.
C4_Method1NoDriverPath ==
    \A i \in 1..Len(attempts) :
        (attempts[i].method = 1 /\ attempts[i].launched) =>
            /\ attempts[i].options = CallerOptions(attempts[i].browser)
            /\ (IsHeadless(attempts[i].options) => request.headless)
            /\ attempts[i].executable_path = NoPath

\* C4 (amended): every method 1 launch is made with options built from the
\* flags of the caller only and without forced headless; no download is asked
\* for; a driver path is passed exactly for the kinds that have a driver
\* manager class, whether or not a driver file is there.
C4_Method1CallerOptions ==
    \A i \in 1..Len(attempts) :
        (attempts[i].method = 1 /\ attempts[i].launched) =>
            /\ attempts[i].options = CallerOptions(attempts[i].browser)
            /\ (IsHeadless(attempts[i].options) => request.headless)
            /\ ~attempts[i].download /\ ~attempts[i].downloaded
            /\ (attempts[i].executable_path # NoPath) <=> HasProvider(attempts[i])

\* Chrome is launched by method 1 with the maximized flag of the caller, no
\* headless, and the path of a canonical driver that does not exist
C4_Witness ==
    \E i \in 1..Len(attempts) :
        /\ attempts[i].method = 1 /\ attempts[i].launched
        /\ attempts[i].browser = "Chrome"
        /\ request.maximized /\ ~request.headless
        /\ "--start-maximized" \in Range(attempts[i].options.browser_options.arguments)
        /\ attempts[i].executable_path = default_executable_path("chrome")
        /\ attempts[i].canonBefore = NoFile

\* C5 (as claimed): every method 2 launch comes after the driver acquisition for
\* its kind, uses the options of the method 1 attempt of the same browser and
\* passes a driver path.
C5_Method2DriverPath ==
    \A i \in 1..Len(attempts) :
        (attempts[i].method = 2 /\ attempts[i].launched) =>
            /\ attempts[i].reconciled
            /\ i > 1 /\ attempts[i - 1].pos = attempts[i].pos
            /\ attempts[i - 1].method = 1
            /\ attempts[i].options = attempts[i - 1].options
            /\ attempts[i].executable_path # NoPath

\* C5 (amended): every method 2 launch uses the options of the method 1 attempt
\* of the same browser; for a kind with a driver manager class it comes after
\* the driver acquisition (the driver was in the temp directory or a download
\* was made) and passes the temp path; for a kind without one nothing is
\* acquired and no path is passed.
C5_Method2Acquired ==
    \A i \in 1..Len(attempts) :
        (attempts[i].method = 2 /\ attempts[i].launched) =>
            /\ i > 1 /\ attempts[i - 1].pos = attempts[i].pos
            /\ attempts[i - 1].method = 1
            /\ attempts[i].options = attempts[i - 1].options
            /\ attempts[i].download
            /\ IF HasProvider(attempts[i])
               THEN /\ attempts[i].reconciled
                    /\ attempts[i].tempBefore # NoFile \/ attempts[i].downloaded
                    /\ attempts[i].executable_path =
                           temp_executable_path(lower(attempts[i].browser))
               ELSE /\ ~attempts[i].reconciled
                    /\ ~attempts[i].downloaded
                    /\ attempts[i].executable_path = NoPath

\* Firefox is opened by method 2 with a driver that was downloaded for it
C5_Witness ==
    /\ pc = "returned"
    /\ selected_browser = <<"Firefox", 2>>
    /\ attempts[Len(attempts)].downloaded
    /\ attempts[Len(attempts)].dlOutcome = "ok"
    /\ tempDrv["firefox"] # NoFile

\* C6: whenever headless is in force for a launch (requested by the caller, or
\* method 3) the options are headless for every kind but Safari, and never
\* for Safari.
C6_HeadlessInForce ==
    \A i \in 1..Len(attempts) :
        (attempts[i].launched /\ (request.headless \/ attempts[i].method = 3)) =>
            IF lower(attempts[i].browser) = "safari"
            THEN ~IsHeadless(attempts[i].options)
            ELSE IsHeadless(attempts[i].options)

\* the version that the driver file reports when it is run with --version, as
\* a chromedriver version of the table
ReportedVersion(file) == VersionOfOutput([found |-> TRUE, text |-> file])

\* C7: when a download is asked for Chrome and a driver is at the resolved
\* path, the driver is downloaded again if and only if its version cannot be
\* determined or differs from the chromedriver version of the detected Chrome.
C7_ChromeReconciliation ==
    \A i \in 1..Len(attempts) :
        (/\ attempts[i].launched /\ attempts[i].download
         /\ lower(attempts[i].browser) = "chrome"
         /\ attempts[i].tempBefore # NoFile) =>
            (attempts[i].downloaded <=>
                VersionsDiffer(ReportedVersion(attempts[i].tempBefore),
                               attempts[i].browser_version))

\* C8: when a download is asked for a kind other than Chrome that has a
\* driver manager class, the driver is downloaded if and only if no file is at
\* the resolved path, which is the temp path.
C8_NonChromeDownload ==
    \A i \in 1..Len(attempts) :
        (/\ attempts[i].launched /\ attempts[i].download
         /\ HasProvider(attempts[i])
         /\ lower(attempts[i].browser) # "chrome") =>
            /\ attempts[i].executable_path =
                   temp_executable_path(lower(attempts[i].browser))
            /\ attempts[i].downloaded <=> attempts[i].tempBefore = NoFile

\* the Firefox driver was missing and downloaded by method 2, and found and
\* not downloaded by method 3
C8_Witness ==
    \E i \in 1..Len(attempts) :
        /\ i > 1
        /\ attempts[i].browser = "Firefox" /\ attempts[i].method = 3
        /\ attempts[i].launched
        /\ attempts[i].tempBefore # NoFile /\ ~attempts[i].downloaded
        /\ attempts[i - 1].method = 2
        /\ attempts[i - 1].tempBefore = NoFile /\ attempts[i - 1].downloaded

\* C9: the path that _set_driver_paths returns is the temp path if the temp
\* copy exists or a download is asked for, and the canonical path otherwise,
\* whether or not a canonical driver exists.
C9_PathResolution ==
    \A i \in 1..Len(attempts) :
        (attempts[i].launched /\ HasProvider(attempts[i])) =>
            attempts[i].executable_path =
                IF attempts[i].tempBefore # NoFile \/ attempts[i].download
                THEN temp_executable_path(lower(attempts[i].browser))
                ELSE default_executable_path(lower(attempts[i].browser))

\* without a download, the temp copy is preferred to an existing canonical
\* driver, and a canonical path is returned although no driver is there
C9_Witness ==
    /\ \E i \in 1..Len(attempts) :
          /\ attempts[i].launched /\ ~attempts[i].download
          /\ attempts[i].tempBefore # NoFile /\ attempts[i].canonBefore # NoFile
          /\ attempts[i].executable_path =
                 temp_executable_path(lower(attempts[i].browser))
    /\ \E i \in 1..Len(attempts) :
          /\ attempts[i].launched /\ ~attempts[i].download
          /\ attempts[i].tempBefore = NoFile /\ attempts[i].canonBefore # NoFile
          /\ attempts[i].executable_path =
                 default_executable_path(lower(attempts[i].browser))

\* C10: a RuntimeError of the download never leaves open_available_browser:
\* the launch of the same attempt is still made, and the call ends like any
\* other, with BrowserNotFoundError only after the whole list was tried.
C10_DownloadFailureSwallowed ==
    /\ error # "RuntimeError"
    /\ \A i \in 1..Len(attempts) :
          attempts[i].dlOutcome = "RuntimeError" =>
              /\ attempts[i].launched
              /\ attempts[i].outcome \in LaunchOutcomes
              /\ <<attempts[i].pos, attempts[i].method>> = ScheduledPair(i)
              /\ (i < Len(attempts) => attempts[i].outcome = "WebDriverException")
    /\ (pc = "raised" /\ \E i \in 1..Len(attempts) :
                            attempts[i].dlOutcome = "RuntimeError") =>
          /\ error = "BrowserNotFoundError"
          /\ Len(attempts) = MethodsPerBrowser * Len(order)

\* a download failed, its launch was made and failed, and a later browser was
\* opened
C10_Witness ==
    /\ pc = "returned"
    /\ \E i \in 1..Len(attempts) :
          /\ attempts[i].dlOutcome = "RuntimeError"
          /\ attempts[i].launched
          /\ attempts[i].outcome = "WebDriverException"
          /\ attempts[i].pos < attempts[Len(attempts)].pos

-----------------------------------------------------------------------------
(* Properties of the candidate list and of the selection *)

IsAutomatic(browser_selection) ==
    ~browser_selection.isList /\ browser_selection.str = AUTOMATIC_BROWSER_SELECTION

\* C11: under automatic selection the candidate list is the list of the
\* platform in the fixed table (Windows, Linux, Darwin, any other platform) and
\* begins with Chrome, whatever driver files and Chrome versions the machine has.
C11_AutomaticOrder ==
    (pc # "idle" /\ IsAutomatic(request.browser_selection)) =>
        /\ order =
              (CASE platform = "Windows" ->
                        <<"Chrome", "Firefox", "Edge", "IE", "Opera">>
                 [] platform = "Linux" -> <<"Chrome", "Firefox", "Opera">>
                 [] platform = "Darwin" -> <<"Chrome", "Safari", "Firefox", "Opera">>
                 [] OTHER -> <<"Chrome", "Firefox">>)
        /\ order[1] = "Chrome"

\* an automatic call on a Mac with old drivers at the canonical location and no
\* Chrome installed went past Chrome to Safari
C11_Witness ==
    /\ IsAutomatic(request.browser_selection)
    /\ platform = "Darwin"
    /\ canonDrv = OldDrivers
    /\ \A c \in Commands(platform) : probeOut[c].text = EmptyText
    /\ Len(attempts) >= 4
    /\ attempts[4].browser = "Safari"

\* C12: an explicit selection is the candidate list: a list is taken as it is,
\* in its order and with its repetitions, and a single kind becomes the list of
\* that kind alone.
C12_ExplicitOrder ==
    (pc # "idle" /\ ~IsAutomatic(request.browser_selection)) =>
        IF request.browser_selection.isList
        THEN order = request.browser_selection.list
        ELSE order = <<request.browser_selection.str>>

\* a list that names Firefox twice had Firefox tried again at its second position
C12_Witness ==
    /\ request.browser_selection = ListSelection(<<"Firefox", "Firefox">>)
    /\ order = <<"Firefox", "Firefox">>
    /\ \E i \in 1..Len(attempts) :
          attempts[i].pos = 2 /\ attempts[i].browser = "Firefox"

\* C13: a selection is recorded only by a step whose attempt succeeded, as the
\* (browser, method) pair of that attempt, and a recorded selection is never
\* changed by a later step of the call.
C13_SelectionRecordedOnce ==
    [][/\ selected_browser # None => selected_browser' = selected_browser
       /\ (selected_browser = None /\ selected_browser' # None) =>
             /\ Len(attempts') = Len(attempts) + 1
             /\ Succeeded(attempts'[Len(attempts')])
             /\ selected_browser' = <<attempts'[Len(attempts')].browser,
                                      attempts'[Len(attempts')].method>>]_vars

\* a call that recorded Firefox with the third method went on to return
C13_Witness ==
    /\ selected_browser = <<"Firefox", 3>>
    /\ pc = "returned"

-----------------------------------------------------------------------------
(* The keyword detect_chrome_version called on its own *)

\* a version that follows other text, and text that holds numbers but no version
V80Line == <<"v", " ">> \o V80
NoVersionText == <<"1", ".", "2">>

\* outputs of a Chrome version probe command: the command is not found, or it
\* prints one of these texts
DetectOutputs ==
    {[found |-> FALSE, text |-> EmptyText]}
        \cup {[found |-> TRUE, text |-> t] :
                t \in {EmptyText, NoVersionText, V81b, V80Line, V79, V83}}

\* each probe command of the platform answers on its own
DetectEnvs(system) == [Commands(system) -> DetectOutputs]

\* no open_available_browser call is under way and no other keyword was called
Idle ==
    /\ pc = "idle"
    /\ request = NoRequest
    /\ order = <<>>
    /\ pos = 0
    /\ method = 0
    /\ options = [keys |-> {}, browser_options |-> NoOptions]
    /\ index = <<-1>>
    /\ selected_browser = None
    /\ attempts = <<>>
    /\ sessions = 0
    /\ url_opened = 0
    /\ error = NoError
    /\ raised = NoError
    /\ call = NoCall
    /\ calls = 0

InitDetect ==
    /\ platform \in Platforms
    /\ probeOut \in DetectEnvs(platform)
    /\ tempDrv = NoDrivers
    /\ canonDrv = NoDrivers
    /\ logDebug = FALSE
    /\ profileDir = FALSE
    /\ Idle
    /\ detection = NotDetected
    /\ worksheets = <<>>
    /\ active = NoSheet

DetectChromeVersion ==
    /\ detection = NotDetected
    /\ detection' = detect_chrome_version(platform, probeOut)
    /\ UNCHANGED <<platform, probeOut, logDebug, profileDir, tempDrv, canonDrv, pc,
                   request, order, pos, method, options, index, selected_browser,
                   attempts, sessions, url_opened, error, worksheets, active,
                   raised, call, calls>>

NextDetect == DetectChromeVersion

SpecDetect == InitDetect /\ [][NextDetect]_vars

\* the major version of the Chrome version that an enumerated output holds, 0
\* when it holds none
MajorIn(text) ==
    CASE text = V81b -> 81
      [] text = V80Line -> 80
      [] text = V79 -> 79
      [] text = V83 -> 83
      [] OTHER -> 0

\* the chromedriver version of the static table for a major version, unknown
\* (False) for a major version outside the table
TableVersion(major) ==
    CASE major = 81 -> V81
      [] major = 80 -> V80
      [] major = 79 -> V79
      [] OTHER -> False

\* the probes, by position in the list, whose output holds a version
Parsable(CMDS, outputs) ==
    {i \in 1..Len(CMDS) : outputs[CMDS[i]].found /\ MajorIn(outputs[CMDS[i]].text) # 0}

ResultOfFirst(CMDS, outputs, hits) ==
    IF hits = {} THEN False
    ELSE TableVersion(MajorIn(outputs[CMDS[CHOOSE i \in hits :
                                              \A i2 \in hits : i <= i2]].text))

ExpectedDetection(CMDS, outputs) ==
    ResultOfFirst(CMDS, outputs, Parsable(CMDS, outputs))

\* C14 on the platforms that have a probe list: the result is that of the first
\* probe, in list order, whose output holds a version (the table version of a
\* major version 81, 80 or 79, unknown for another one), and unknown when no
\* output holds a version.
C14_DetectionOnTablePlatforms ==
    (detection # NotDetected /\ platform \in DOMAIN OS_CMDS) =>
        /\ detection.raises = NoError
        /\ detection.version = ExpectedDetection(OS_CMDS[platform], probeOut)

\* on Linux the first command is missing, the second reports an unmapped
\* Chrome 83 and the third a Chrome 81: the result is unknown
C14_Witness ==
    /\ detection # NotDetected
    /\ platform = "Linux"
    /\ ~probeOut["chromium"].found
    /\ probeOut["chromium-browser"] = [found |-> TRUE, text |-> V83]
    /\ probeOut["google-chrome"] = [found |-> TRUE, text |-> V81b]
    /\ detection.version = False

\* C14: version detection returns a result, which is unknown (False) or a value
\* of the static table: that of the first probe whose output holds a version,
\* and unknown when no probe output holds one.
C14_Detection ==
    detection # NotDetected =>
        /\ detection.raises = NoError
        /\ detection.version \in {False, V81, V80, V79}
        /\ detection.version =
              ExpectedDetection(IF platform \in DOMAIN OS_CMDS
                                THEN OS_CMDS[platform] ELSE <<>>, probeOut)

-----------------------------------------------------------------------------
(* The keywords open_chrome_browser and open_headless_chrome_browser *)

\* open_chrome_browser: open_available_browser with browser_selection="Chrome"
\* and the flags of the caller
open_chrome_browser(use_profile, headless, maximized) ==
    Begin([browser_selection |-> StrSelection("Chrome"), use_profile |-> use_profile,
           headless |-> headless, maximized |-> maximized])

\* open_headless_chrome_browser: open_chrome_browser(url, headless=True)
open_headless_chrome_browser == open_chrome_browser(FALSE, TRUE, FALSE)

NextChrome ==
    \/ \E use_profile \in BOOLEAN, headless \in BOOLEAN, maximized \in BOOLEAN :
          open_chrome_browser(use_profile, headless, maximized)
    \/ open_headless_chrome_browser
    \/ \E d \in DownloadOutcomes, l \in LaunchOutcomes : Method1(d, l)
    \/ \E d \in DownloadOutcomes, l \in LaunchOutcomes : Method2(d, l)
    \/ \E d \in DownloadOutcomes, l \in LaunchOutcomes : Method3(d, l)
    \/ Return
    \/ Raise

SpecChrome == Init /\ [][NextChrome]_vars

\* the call of one of the two keywords is over
Ended == pc \in {"returned", "raised"}

\* the arguments that open_headless_chrome_browser passes on
HeadlessChromeRequest ==
    [browser_selection |-> StrSelection("Chrome"), use_profile |-> FALSE,
     headless |-> TRUE, maximized |-> FALSE]

\* C15 without its last part: both keywords try Chrome only, the first and
\* second method with the options built from the flags that were passed;
\* with headless they make at most two attempts, methods 1 and 2, both with
\* headless options; they raise BrowserNotFoundError only when every attempt
\* was made and failed.
C15_ChromeOnly ==
    pc # "idle" =>
        /\ order = <<"Chrome">>
        /\ \A i \in 1..Len(attempts) :
              /\ attempts[i].browser = "Chrome"
              /\ attempts[i].method <= 2 => attempts[i].options = CallerOptions("Chrome")
        /\ request.headless =>
              /\ Len(attempts) <= 2
              /\ \A i \in 1..Len(attempts) :
                    /\ attempts[i].method = i
                    /\ IsHeadless(attempts[i].options)
        /\ error = "BrowserNotFoundError" =>
              /\ Len(attempts) = MethodsPerBrowser
              /\ \A i \in 1..Len(attempts) : Failed(attempts[i])

\* open_headless_chrome_browser made its two attempts, both failed, and it
\* raised BrowserNotFoundError
C15_Witness ==
    /\ request = HeadlessChromeRequest
    /\ Len(attempts) = 2
    /\ Failed(attempts[1]) /\ Failed(attempts[2])
    /\ IsHeadless(attempts[2].options)
    /\ error = "BrowserNotFoundError"

\* C15: open_chrome_browser tries Chrome only, with the flags of the caller;
\* open_headless_chrome_browser tries Chrome only, at most twice (methods 1 and
\* 2), each time with headless options; a call of either keyword in which no
\* attempt succeeded ends with BrowserNotFoundError.
C15_ChromeKeywords ==
    pc # "idle" =>
        /\ order = <<"Chrome">>
        /\ \A i \in 1..Len(attempts) :
              /\ attempts[i].browser = "Chrome"
              /\ attempts[i].method <= 2 => attempts[i].options = CallerOptions("Chrome")
        /\ request = HeadlessChromeRequest =>
              /\ Len(attempts) <= 2
              /\ \A i \in 1..Len(attempts) :
                    /\ attempts[i].method \in {1, 2}
                    /\ IsHeadless(attempts[i].options)
        /\ (Ended /\ \A i \in 1..Len(attempts) : ~Succeeded(attempts[i])) =>
              (pc = "raised" /\ error = "BrowserNotFoundError")

-----------------------------------------------------------------------------
(* RPA.Excel.Files: the worksheet keywords of an open workbook.  The library *)
(* is known from its tests (tests/python/test_excel.py) and from the         *)
(* specification: an unknown worksheet name raises ValueError.               *)

SheetNames == {"First", "Second", "Third", "New"}

browserVars ==
    <<platform, probeOut, logDebug, profileDir, tempDrv, canonDrv, pc, request,
      order, pos, method, options, index, selected_browser, attempts, sessions,
      url_opened, error, detection, calls>>

\* open_workbook of the example workbook: the worksheets First and Second,
\* Second being the active one
InitExcel ==
    /\ platform = "Linux"
    /\ probeOut = [c \in Commands("Linux") |-> [found |-> TRUE, text |-> EmptyText]]
    /\ tempDrv = NoDrivers
    /\ canonDrv = NoDrivers
    /\ logDebug = FALSE
    /\ profileDir = FALSE
    /\ Idle
    /\ detection = NotDetected
    /\ worksheets = <<"First", "Second">>
    /\ active = "Second"

\* create_worksheet that takes the name of an existing worksheet without an error
create_worksheet_ExistOk(name) ==
    /\ worksheets # <<>>
    /\ call' = [keyword |-> "create_worksheet", name |-> name]
    /\ IF name \in Range(worksheets)
       THEN /\ raised' = NoError
            /\ UNCHANGED <<worksheets, active>>
       ELSE /\ raised' = NoError
            /\ worksheets' = Append(worksheets, name)
            /\ active' \in {active, name}
    /\ UNCHANGED browserVars

\* create_worksheet(name): ValueError for a name that exists; a new worksheet
\* goes to the end of the list (whether it becomes the active one is not
\* determined by the tests)
create_worksheet(name) ==
    /\ worksheets # <<>>
    /\ call' = [keyword |-> "create_worksheet", name |-> name]
    /\ IF name \in Range(worksheets)
       THEN /\ raised' = "ValueError"
            /\ UNCHANGED <<worksheets, active>>
       ELSE /\ raised' = NoError
            /\ worksheets' = Append(worksheets, name)
            /\ active' \in {active, name}
    /\ UNCHANGED browserVars

\* set_active_worksheet that does not look the name up
set_active_worksheet_Unchecked(name) ==
    /\ worksheets # <<>>
    /\ call' = [keyword |-> "set_active_worksheet", name |-> name]
    /\ raised' = NoError
    /\ active' = name
    /\ UNCHANGED worksheets
    /\ UNCHANGED browserVars

\* set_active_worksheet(name): ValueError for a name that is not in the workbook
set_active_worksheet(name) ==
    /\ worksheets # <<>>
    /\ call' = [keyword |-> "set_active_worksheet", name |-> name]
    /\ IF name \in Range(worksheets)
       THEN /\ raised' = NoError
            /\ active' = name
       ELSE /\ raised' = "ValueError"
            /\ UNCHANGED active
    /\ UNCHANGED worksheets
    /\ UNCHANGED browserVars

\* remove_worksheet(name) of a workbook with more than one worksheet: the
\* worksheet leaves the list; when it was the active one another worksheet
\* becomes active
remove_worksheet(name) ==
    /\ Len(worksheets) > 1
    /\ call' = [keyword |-> "remove_worksheet", name |-> name]
    /\ IF name \in Range(worksheets)
       THEN /\ raised' = NoError
            /\ worksheets' = SelectSeq(worksheets, LAMBDA n : n # name)
            /\ IF active = name
               THEN active' \in Range(worksheets) \ {name}
               ELSE UNCHANGED active
       ELSE /\ raised' = "ValueError"
            /\ UNCHANGED <<worksheets, active>>
    /\ UNCHANGED browserVars

NextExcel ==
    \/ \E name \in SheetNames : create_worksheet(name)
    \/ \E name \in SheetNames : set_active_worksheet(name)
    \/ \E name \in SheetNames : remove_worksheet(name)

SpecExcel == InitExcel /\ [][NextExcel]_vars

\* C16: a create_worksheet call with a name that is in the worksheet list
\* raises ValueError and leaves the list as it was; with a new name it raises
\* nothing and the list becomes the old list with the name appended at the end.
C16_CreateWorksheet ==
    [][\A name \in SheetNames :
          call' = [keyword |-> "create_worksheet", name |-> name] =>
              IF name \in Range(worksheets)
              THEN raised' = "ValueError" /\ worksheets' = worksheets
              ELSE raised' = NoError /\ worksheets' = Append(worksheets, name)]_vars

\* New was created after First and Second, and creating it once more raised
C16_Witness ==
    /\ call = [keyword |-> "create_worksheet", name |-> "New"]
    /\ raised = "ValueError"
    /\ worksheets = <<"First", "Second", "New">>

\* C17: a set_active_worksheet call with a name that is not in the worksheet
\* list raises ValueError and leaves the active worksheet as it was; with a
\* name of the list it raises nothing and that worksheet is the active one.
C17_SetActiveWorksheet ==
    [][\A name \in SheetNames :
          call' = [keyword |-> "set_active_worksheet", name |-> name] =>
              IF name \in Range(worksheets)
              THEN raised' = NoError /\ active' = name
              ELSE raised' = "ValueError" /\ active' = active]_vars

\* Third is not in the example workbook: the call raised, Second is still active
C17_Witness ==
    /\ call = [keyword |-> "set_active_worksheet", name |-> "Third"]
    /\ raised = "ValueError"
    /\ worksheets = <<"First", "Second">>
    /\ active = "Second"

-----------------------------------------------------------------------------
(* Properties of the return of the call and of the driver downloads *)

\* C18: go_to(url) is called once, by the return of a call whose last attempt
\* succeeded and whose selection is recorded; the index that is returned is the
\* one create_webdriver registered for that attempt, all attempts before it
\* having failed; a call that raised never opened the URL.
C18_ReturnsSuccessfulIndex ==
    /\ url_opened = (IF pc = "returned" THEN 1 ELSE 0)
    /\ pc = "returned" =>
          /\ selected_browser # None
          /\ Len(attempts) > 0
          /\ Succeeded(attempts[Len(attempts)])
          /\ \A i \in 1..(Len(attempts) - 1) : Failed(attempts[i])
          /\ index # IndexFalse
          /\ index = <<sessions>>
    /\ pc = "raised" =>
          /\ selected_browser = None
          /\ \A i \in 1..Len(attempts) : ~Succeeded(attempts[i])

\* the first attempt failed, a later one succeeded, and the call returned the
\* index of the one webdriver that was registered
C18_Witness ==
    /\ pc = "returned"
    /\ Len(attempts) >= 2
    /\ Failed(attempts[1])
    /\ index = <<1>>
    /\ sessions = 1
    /\ url_opened = 1

\* C19: a download for a browser other than Chrome is never asked for with a
\* version taken from the Chrome table: it asks for no version (the latest
\* driver), whatever the Chrome version probes return.
C19_NonChromeNotPinned ==
    \A i \in 1..Len(attempts) :
        (attempts[i].downloaded /\ lower(attempts[i].browser) # "chrome") =>
            attempts[i].version = False

\* C20: an attempt of method 1 is made with download not requested, and an
\* attempt with download not requested calls download_driver for no browser and
\* leaves the driver files of both directories as they were.
C20_Method1NoDownload ==
    [][Len(attempts') = Len(attempts) + 1 =>
          /\ attempts'[Len(attempts')].method = 1 =>
                ~attempts'[Len(attempts')].download
          /\ ~attempts'[Len(attempts')].download =>
                /\ ~attempts'[Len(attempts')].downloaded
                /\ attempts'[Len(attempts')].dlOutcome = "none"
                /\ tempDrv' = tempDrv
                /\ canonDrv' = canonDrv]_vars

\* Firefox was launched by method 1 on a machine without any driver file, and
\* there is still none
C20_Witness ==
    /\ Len(attempts) = 1
    /\ attempts[1].method = 1
    /\ attempts[1].browser = "Firefox"
    /\ attempts[1].launched
    /\ attempts[1].tempBefore = NoFile
    /\ attempts[1].canonBefore = NoFile
    /\ tempDrv = NoDrivers
    /\ canonDrv = NoDrivers

-----------------------------------------------------------------------------
(* Several open_available_browser calls of one library, one after the other *)

\* number of calls that are followed by another call
MaxCalls == 2

\* the browsers of the calls that are enumerated: they have a driver manager class
CallKinds == {"Chrome", "Firefox"}

\* the calls that are enumerated: one browser, with and without headless
CallRequests ==
    {[browser_selection |-> StrSelection(k), use_profile |-> FALSE,
      headless |-> h, maximized |-> FALSE] : k \in CallKinds, h \in BOOLEAN}

\* a call is over (it returned or raised) and the library is called again: the
\* local variables of the call are gone, the registered webdrivers and the
\* driver files stay
NewCall ==
    /\ pc \in {"returned", "raised"}
    /\ calls < MaxCalls
    /\ calls' = calls + 1
    /\ pc' = "idle"
    /\ request' = NoRequest
    /\ order' = <<>>
    /\ pos' = 0
    /\ method' = 0
    /\ options' = [keys |-> {}, browser_options |-> NoOptions]
    /\ index' = <<-1>>
    /\ selected_browser' = None
    /\ attempts' = <<>>
    /\ url_opened' = 0
    /\ error' = NoError
    /\ UNCHANGED <<platform, probeOut, logDebug, profileDir, tempDrv, canonDrv,
                   sessions, detection, worksheets, active, raised, call>>

\* between two calls the driver file of a driver manager class is removed
\* from TEMPDIR/drivers (the temp directory is not owned by the library)
RemoveTempDriver(dm) ==
    /\ pc = "idle"
    /\ tempDrv[dm] # NoFile
    /\ tempDrv' = [tempDrv EXCEPT ![dm] = NoFile]
    /\ UNCHANGED <<envVars, pc, request, order, pos, method, options, index,
                   selected_browser, attempts, sessions, url_opened, error>>

NextCalls ==
    \/ \E req \in CallRequests : Begin(req)
    \/ \E d \in DownloadOutcomes, l \in LaunchOutcomes : Method1(d, l)
    \/ \E d \in DownloadOutcomes, l \in LaunchOutcomes : Method2(d, l)
    \/ \E d \in DownloadOutcomes, l \in LaunchOutcomes : Method3(d, l)
    \/ Return
    \/ Raise
    \/ NewCall
    \/ \E k \in CallKinds : RemoveTempDriver(lower(k))

SpecCalls == Init /\ [][NextCalls]_vars

\* C21: every launch attempt for a browser whose driver file is in the temp
\* directory when the attempt is made is given the temp path of that driver,
\* not the canonical path, by each method and in each call.
C21_TempCacheSticky ==
    [][(/\ Len(attempts') = Len(attempts) + 1
        /\ attempts'[Len(attempts')].launched
        /\ HasProvider(attempts'[Len(attempts')])
        /\ DriverOf(attempts'[Len(attempts')].browser, tempDrv) # NoFile) =>
           /\ attempts'[Len(attempts')].executable_path =
                  temp_executable_path(lower(attempts'[Len(attempts')].browser))
           /\ attempts'[Len(attempts')].executable_path #
                  default_executable_path(lower(attempts'[Len(attempts')].browser))]_vars

\* on a machine that had a geckodriver at the canonical location only, a call
\* downloaded one into the temp directory, and the first attempt of the next
\* call (method 1, no download) was launched with the temp path
C21_Witness ==
    /\ calls >= 1
    /\ canonDrv = OldDrivers
    /\ Len(attempts) = 1
    /\ attempts[1].browser = "Firefox"
    /\ attempts[1].method = 1
    /\ attempts[1].launched
    /\ attempts[1].canonBefore # NoFile
    /\ attempts[1].tempBefore # NoFile
    /\ attempts[1].executable_path = temp_executable_path("firefox")

====
